---- MODULE Spec2Model ----
(***************************************************************************)
(* TradingView -> Binance webhook bot (src/app.py).                        *)
(*                                                                         *)
(* The model follows one webhook request from the payload to the market    *)
(* order: parsing of the payload (JSON dict or TradingView alert text),    *)
(* the USDT balance and minimum-amount checks, the price read, the step    *)
(* size precision and rounding of the buy quantity, the base-asset balance *)
(* read of a sell, and the order call.  Every Binance client call is one   *)
(* atomic step, so that concurrent requests interleave between calls.      *)
(*                                                                         *)
(* Python strings are sequences of one-character strings, dicts are        *)
(* functions from keys to values, floats are exact rationals [n, d].       *)
(***************************************************************************)
EXTENDS Integers, Sequences, FiniteSets, TLC

----------------------------------------------------------------------------
(* Characters and the str methods the program uses *)

LowerAlpha ==
  <<"a","b","c","d","e","f","g","h","i","j","k","l","m",
    "n","o","p","q","r","s","t","u","v","w","x","y","z">>

UpperAlpha ==
  <<"A","B","C","D","E","F","G","H","I","J","K","L","M",
    "N","O","P","Q","R","S","T","U","V","W","X","Y","Z">>

DigitChars == <<"0","1","2","3","4","5","6","7","8","9">>

Range(f) == { f[i] : i \in DOMAIN f }

IsSpace(c) == c \in {" ", "\t", "\n"}

IsDigit(c) == c \in Range(DigitChars)

\* \w of the re module, on the ASCII alphabet
IsWord(c) == c \in Range(LowerAlpha) \cup Range(UpperAlpha) \cup Range(DigitChars) \cup {"_"}

lower_char(c) ==
  IF \E i \in 1..26 : UpperAlpha[i] = c
  THEN LowerAlpha[CHOOSE i \in 1..26 : UpperAlpha[i] = c]
  ELSE c

upper_char(c) ==
  IF \E i \in 1..26 : LowerAlpha[i] = c
  THEN UpperAlpha[CHOOSE i \in 1..26 : LowerAlpha[i] = c]
  ELSE c

\* str.lower()
str_lower(s) == [i \in 1..Len(s) |-> lower_char(s[i])]

\* str.upper()
str_upper(s) == [i \in 1..Len(s) |-> upper_char(s[i])]

\* s[i:j] with 1-based inclusive bounds; empty when j < i
Slice(s, i, j) == IF j < i THEN << >> ELSE SubSeq(s, i, j)

RECURSIVE str_lstrip(_)
str_lstrip(s) ==
  IF s # << >> /\ IsSpace(Head(s)) THEN str_lstrip(Tail(s)) ELSE s

RECURSIVE str_rstrip(_)
str_rstrip(s) ==
  IF s # << >> /\ IsSpace(s[Len(s)]) THEN str_rstrip(Slice(s, 1, Len(s) - 1)) ELSE s

\* str.strip()
str_strip(s) == str_rstrip(str_lstrip(s))

\* str.rstrip('0')
RECURSIVE rstrip_zeros(_)
rstrip_zeros(s) ==
  IF s # << >> /\ s[Len(s)] = "0" THEN rstrip_zeros(Slice(s, 1, Len(s) - 1)) ELSE s

\* s.startswith(sub) at position i
HasAt(s, i, sub) ==
  /\ i + Len(sub) - 1 <= Len(s)
  /\ Slice(s, i, i + Len(sub) - 1) = sub

\* str.replace(old, new): leftmost non-overlapping occurrences
RECURSIVE str_replace(_, _, _)
str_replace(s, old, new) ==
  IF s = << >> THEN << >>
  ELSE IF HasAt(s, 1, old)
       THEN new \o str_replace(Slice(s, Len(old) + 1, Len(s)), old, new)
       ELSE <<Head(s)>> \o str_replace(Tail(s), old, new)

\* s.split('.')[-1]: the part after the last '.'
RECURSIVE after_last_dot(_)
after_last_dot(s) ==
  IF \E i \in 1..Len(s) : s[i] = "."
  THEN after_last_dot(Slice(s, (CHOOSE i \in 1..Len(s) : s[i] = ".") + 1, Len(s)))
  ELSE s

----------------------------------------------------------------------------
(* The two regular expressions of parse_tradingview_text, matched with      *)
(* re.match (anchored at the start only) under re.IGNORECASE               *)

\* end (exclusive) of the longest run of characters satisfying a class
RECURSIVE SpaceEnd(_, _)
SpaceEnd(s, i) == IF i <= Len(s) /\ IsSpace(s[i]) THEN SpaceEnd(s, i + 1) ELSE i

RECURSIVE WordEnd(_, _)
WordEnd(s, i) == IF i <= Len(s) /\ IsWord(s[i]) THEN WordEnd(s, i + 1) ELSE i

RECURSIVE NumEnd(_, _)
NumEnd(s, i) ==
  IF i <= Len(s) /\ (IsDigit(s[i]) \/ s[i] = ".") THEN NumEnd(s, i + 1) ELSE i

\* a literal under IGNORECASE
LitAt(s, i, lit) == HasAt(str_lower(s), i, str_lower(lit))

NoMatch == [matched |-> FALSE, groups |-> << >>]

\* the alternation tries its branches in order
FirstAlt(s, i, alts) ==
  IF \E k \in 1..Len(alts) : LitAt(s, i, alts[k])
  THEN LET k == CHOOSE k \in 1..Len(alts) :
                  /\ LitAt(s, i, alts[k])
                  /\ \A j \in 1..(k - 1) : ~LitAt(s, i, alts[j])
       IN  Len(alts[k])
  ELSE 0

\* r'(BUY|SELL)\s+(\w+)\s+QTY=([0-9.]+)'
pattern1 == [alts |-> << <<"B","U","Y">>, <<"S","E","L","L">> >>,
             lit  |-> <<"Q","T","Y","=">>]

match1(text) ==
  LET a  == FirstAlt(text, 1, pattern1.alts)
      s1 == SpaceEnd(text, a + 1)
      w  == WordEnd(text, s1)
      s2 == SpaceEnd(text, w)
      q  == s2 + Len(pattern1.lit)
      e  == NumEnd(text, q)
  IN  IF /\ a > 0
         /\ s1 > a + 1
         /\ w > s1
         /\ s2 > w
         /\ LitAt(text, s2, pattern1.lit)
         /\ e > q
      THEN [matched |-> TRUE,
            groups  |-> << Slice(text, 1, a), Slice(text, s1, w - 1), Slice(text, q, e - 1) >>]
      ELSE NoMatch

\* r'CLOSE\s+(LONG|SHORT)\s+(\w+)'
pattern2 == [lit  |-> <<"C","L","O","S","E">>,
             alts |-> << <<"L","O","N","G">>, <<"S","H","O","R","T">> >>]

match2(text) ==
  LET c  == Len(pattern2.lit)
      s1 == SpaceEnd(text, c + 1)
      a  == FirstAlt(text, s1, pattern2.alts)
      s2 == SpaceEnd(text, s1 + a)
      w  == WordEnd(text, s2)
  IN  IF /\ LitAt(text, 1, pattern2.lit)
         /\ s1 > c + 1
         /\ a > 0
         /\ s2 > s1 + a
         /\ w > s2
      THEN [matched |-> TRUE,
            groups  |-> << Slice(text, s1, s1 + a - 1), Slice(text, s2, w - 1) >>]
      ELSE NoMatch

\* Python's None where a dict is expected; `not data` holds of None and of {}
None == << >>

\* variant: the close direction read the wrong way round
parse_close_inverted(text0) ==
  LET text == str_strip(text0)
      m1 == match1(text)
      m2 == match2(text)
  IN  IF m1.matched
      THEN [action |-> str_lower(m1.groups[1]),
            symbol |-> str_upper(m1.groups[2]),
            source |-> <<"t","r","a","d","i","n","g","v","i","e","w","_","t","e","x","t">>]
      ELSE IF m2.matched
      THEN [action |-> IF str_lower(m2.groups[1]) = <<"s","h","o","r","t">>
                       THEN <<"s","e","l","l">> ELSE <<"b","u","y">>,
            symbol |-> str_upper(m2.groups[2]),
            source |-> <<"t","r","a","d","i","n","g","v","i","e","w","_","c","l","o","s","e">>]
      ELSE None

\* variant: the symbol taken from group 3, the QTY= value, instead of group 2
parse_wrong_group(text0) ==
  LET text == str_strip(text0)
      m1 == match1(text)
      m2 == match2(text)
  IN  IF m1.matched
      THEN [action |-> str_lower(m1.groups[1]),
            symbol |-> str_upper(m1.groups[3]),
            source |-> <<"t","r","a","d","i","n","g","v","i","e","w","_","t","e","x","t">>]
      ELSE IF m2.matched
      THEN [action |-> IF str_lower(m2.groups[1]) = <<"l","o","n","g">>
                       THEN <<"s","e","l","l">> ELSE <<"b","u","y">>,
            symbol |-> str_upper(m2.groups[2]),
            source |-> <<"t","r","a","d","i","n","g","v","i","e","w","_","c","l","o","s","e">>]
      ELSE None

parse_tradingview_text(text0) ==
  LET text == str_strip(text0)
      m1 == match1(text)
      m2 == match2(text)
  IN  IF m1.matched
      THEN [action |-> str_lower(m1.groups[1]),
            symbol |-> str_upper(m1.groups[2]),
            source |-> <<"t","r","a","d","i","n","g","v","i","e","w","_","t","e","x","t">>]
      ELSE IF m2.matched
      THEN [action |-> IF str_lower(m2.groups[1]) = <<"l","o","n","g">>
                       THEN <<"s","e","l","l">> ELSE <<"b","u","y">>,
            symbol |-> str_upper(m2.groups[2]),
            source |-> <<"t","r","a","d","i","n","g","v","i","e","w","_","c","l","o","s","e">>]
      ELSE None

----------------------------------------------------------------------------
(* Numbers.  A float is an exact rational [n, d] in lowest terms, d > 0.    *)

RECURSIVE GCD(_, _)
GCD(a, b) == IF b = 0 THEN a ELSE GCD(b, a % b)

Abs(a) == IF a < 0 THEN -a ELSE a

RECURSIVE Pow10(_)
Pow10(k) == IF k = 0 THEN 1 ELSE 10 * Pow10(k - 1)

Rat(n, d) ==
  LET g == GCD(Abs(n), d)
  IN  IF n = 0 THEN [n |-> 0, d |-> 1] ELSE [n |-> n \div g, d |-> d \div g]

\* the operations reduce before they multiply, to keep the integers small
RatSub(x, y) ==
  LET g == GCD(x.d, y.d)
  IN  Rat(x.n * (y.d \div g) - y.n * (x.d \div g), (x.d \div g) * y.d)

RatAdd(x, y) == RatSub(x, [n |-> -y.n, d |-> y.d])

RatMul(x, y) ==
  LET g1 == GCD(Abs(x.n), y.d)
      g2 == GCD(Abs(y.n), x.d)
  IN  IF x.n = 0 \/ y.n = 0 THEN [n |-> 0, d |-> 1]
      ELSE [n |-> (x.n \div g1) * (y.n \div g2), d |-> (x.d \div g2) * (y.d \div g1)]

\* y > 0
RatDiv(x, y) == RatMul(x, [n |-> y.d, d |-> y.n])

RatLT(x, y) ==
  LET g == GCD(x.d, y.d)
  IN  x.n * (y.d \div g) < y.n * (x.d \div g)

RatLE(x, y) == ~RatLT(y, x)

Zero == [n |-> 0, d |-> 1]

\* x is an integer multiple of step (step > 0)
IsMultipleOf(x, step) == RatDiv(x, step).d = 1

\* round(x, ndigits) for x >= 0: to the nearest multiple of 10^-ndigits,
\* a tie going to the even one.  The value is exact here and a double in the
\* program; the two agree on every quantity the specifications below reach.
round(x, ndigits) ==
  LET g   == GCD(Pow10(ndigits), x.d)
      num == x.n * (Pow10(ndigits) \div g)
      den == x.d \div g
      q   == num \div den
      r   == num % den
      k   == IF 2 * r < den THEN q
             ELSE IF 2 * r > den THEN q + 1
             ELSE IF q % 2 = 0 THEN q ELSE q + 1
  IN  Rat(k, Pow10(ndigits))

\* the decimal digits of a natural number
RECURSIVE IntDigits(_)
IntDigits(m) ==
  IF m < 10 THEN <<DigitChars[m + 1]>>
  ELSE IntDigits(m \div 10) \o <<DigitChars[(m % 10) + 1]>>

RECURSIVE DigitsValue(_)
DigitsValue(s) ==
  IF s = << >> THEN 0
  ELSE 10 * DigitsValue(Slice(s, 1, Len(s) - 1))
       + ((CHOOSE i \in 1..10 : DigitChars[i] = s[Len(s)]) - 1)

\* a decimal m * 10^e with the trailing zeros of m moved into e
RECURSIVE Normalize(_, _)
Normalize(m, e) ==
  IF m = 0 THEN [m |-> 0, e |-> 0]
  ELSE IF m % 10 = 0 THEN Normalize(m \div 10, e + 1)
  ELSE [m |-> m, e |-> e]

\* float(s) of a plain decimal string "iii.fff": the float as the decimal
\* m * 10^e that repr() shows
float(s) ==
  LET dot  == IF \E i \in 1..Len(s) : s[i] = "."
              THEN CHOOSE i \in 1..Len(s) : s[i] = "."
              ELSE Len(s) + 1
      int  == Slice(s, 1, dot - 1)
      frac == Slice(s, dot + 1, Len(s))
  IN  Normalize(DigitsValue(int \o frac), -Len(frac))

FloatRat(x) == IF x.e >= 0 THEN Rat(x.m * Pow10(x.e), 1) ELSE Rat(x.m, Pow10(-x.e))

Zeros(k) == [i \in 1..k |-> "0"]

\* str(x) of a float: repr() writes the shortest digit string D with the
\* decimal point at decpt, in exponent notation when decpt <= -4 or > 16
str(x) ==
  LET D     == IntDigits(x.m)
      L     == Len(D)
      decpt == L + x.e
      ex    == Abs(decpt - 1)
  IN  IF x.m = 0 THEN <<"0", ".", "0">>
      ELSE IF decpt > -4 /\ decpt <= 16
      THEN IF decpt <= 0 THEN <<"0", ".">> \o Zeros(-decpt) \o D
           ELSE IF decpt >= L THEN D \o Zeros(decpt - L) \o <<".", "0">>
           ELSE Slice(D, 1, decpt) \o <<".">> \o Slice(D, decpt + 1, L)
      ELSE <<D[1]>>
           \o (IF L > 1 THEN <<".">> \o Slice(D, 2, L) ELSE << >>)
           \o <<"e", IF decpt - 1 < 0 THEN "-" ELSE "+">>
           \o (IF ex < 10 THEN <<"0">> ELSE << >>) \o IntDigits(ex)

\* len(str(step_size).split('.')[-1].rstrip('0')) if '.' in str(step_size) else 0
step_precision(step_size) ==
  LET s == str(step_size)
  IN  IF \E i \in 1..Len(s) : s[i] = "."
      THEN Len(rstrip_zeros(after_last_dot(s)))
      ELSE 0

----------------------------------------------------------------------------
(* Settings and literals of the program *)

RISK_PERCENTAGE == 5

MIN_USDT_BALANCE == 10

\* `if usdt_to_trade < 10`
MinTradeUsdt == 10

\* `round(quantity, 6)  # Default precision`
DefaultPrecision == 6

WEBHOOK_SECRET == <<"m","y","_","s","e","c","r","e","t","_","1","2","3">>

USDT == <<"U","S","D","T">>

BTC == <<"B","T","C">>

BTCUSDT == <<"B","T","C","U","S","D","T">>

buy == <<"b","u","y">>

sell == <<"s","e","l","l">>

\* data.get(key, default)
Get(data, key, default) == IF key \in DOMAIN data THEN data[key] ELSE default

\* variant: `<=` for `<`
below_reserve_or_equal(free) == RatLE(free, Rat(MIN_USDT_BALANCE, 1))

\* available_usdt < MIN_USDT_BALANCE
below_reserve(free) == RatLT(free, Rat(MIN_USDT_BALANCE, 1))

\* variant: the balance dropped from the product, a flat amount
trade_amount_flat(available) ==
  RatMul(Rat(MIN_USDT_BALANCE, 1), Rat(RISK_PERCENTAGE, 1))

\* (available_usdt - MIN_USDT_BALANCE) * (RISK_PERCENTAGE / 100)
trade_amount(available) ==
  RatMul(RatSub(available, Rat(MIN_USDT_BALANCE, 1)), Rat(RISK_PERCENTAGE, 100))

\* the loop over symbol_info['filters']: << >> is step_size = None
lot_step_size(filters) ==
  IF \E i \in 1..Len(filters) : filters[i].filterType = "LOT_SIZE"
  THEN LET i == CHOOSE i \in 1..Len(filters) :
                  /\ filters[i].filterType = "LOT_SIZE"
                  /\ \A j \in 1..(i - 1) : filters[j].filterType # "LOT_SIZE"
       IN  << float(filters[i].stepSize) >>
  ELSE << >>

\* the quantity of a buy after the precision adjustment
adjust_quantity(raw, filters) ==
  LET step_size == lot_step_size(filters)
  IN  IF step_size # << >> /\ step_size[1].m # 0
      THEN round(raw, step_precision(step_size[1]))
      ELSE round(raw, DefaultPrecision)

----------------------------------------------------------------------------
(* State *)

\* concurrent webhook requests
NumInvocations == 2

Invocations == 1..NumInvocations

VARIABLES
  binance_client,  \* TRUE when the client was initialised
  account,         \* exchange: asset -> free balance
  price,           \* exchange: price of BTCUSDT
  symbol_info,     \* exchange: << >> (get_symbol_info gives None) or <<filters>>
  pc,              \* per request: the call it is about to make
  payload,         \* per request: [json, text] body of the POST
  action,          \* locals of webhook / execute_trade_with_percentage
  symbol,
  available_usdt,
  usdt_to_trade,
  current_price,
  quantity,
  calls,           \* per request: the client calls made so far
  result           \* per request: the response

vars == <<binance_client, account, price, symbol_info, pc, payload, action, symbol,
          available_usdt, usdt_to_trade, current_price, quantity, calls, result>>

exchange == <<binance_client, price, symbol_info, payload>>

Pending == [code |-> 0, kind |-> "pending", action |-> << >>, symbol |-> << >>,
            quantity |-> Zero, usdt_amount |-> Zero, price |-> Zero]

\* a response without order fields
Reply(code, kind) == [Pending EXCEPT !.code = code, !.kind = kind]

Call(fn, arg, qty, ok, ret) ==
  [fn |-> fn, arg |-> arg, quantity |-> qty, ok |-> ok, ret |-> ret]

\* return from the request of p with response r
Return(p, r) ==
  /\ result' = [result EXCEPT ![p] = r]
  /\ pc' = [pc EXCEPT ![p] = "done"]

Goto(p, label) ==
  /\ pc' = [pc EXCEPT ![p] = label]
  /\ UNCHANGED result

\* except BinanceAPIException
ApiError(p, fn, arg, qty) ==
  /\ calls' = [calls EXCEPT ![p] = Append(@, Call(fn, arg, qty, FALSE, << >>))]
  /\ Return(p, Reply(200, "Binance API error"))

\* the dict returned after an order
Success(p) ==
  [code |-> 200, kind |-> "success", action |-> action[p], symbol |-> symbol[p],
   quantity |-> quantity[p],
   usdt_amount |-> IF str_lower(action[p]) = buy THEN usdt_to_trade[p]
                   ELSE RatMul(quantity[p], current_price[p]),
   price |-> current_price[p]]

----------------------------------------------------------------------------
(* webhook(): lines 80-127 *)

Webhook(p) ==
  /\ pc[p] = "webhook"
  /\ LET json == payload[p].json
         data == IF json = None THEN parse_tradingview_text(payload[p].text) ELSE json
         act  == IF Get(data, "action", << >>) # << >>
                 THEN data["action"]
                 ELSE str_lower(Get(data, "side", << >>))
         sym  == Get(data, "symbol", BTCUSDT)
         webhook_secret == Get(data, "secret", << >>)
     IN  IF data = None
         THEN /\ Return(p, Reply(400, "No valid data received"))
              /\ UNCHANGED <<action, symbol>>
         ELSE /\ action' = [action EXCEPT ![p] = act]
              /\ symbol' = [symbol EXCEPT ![p] = sym]
              /\ IF webhook_secret # << >> /\ webhook_secret # WEBHOOK_SECRET
                 THEN Return(p, Reply(401, "Invalid secret"))
                 ELSE IF act = << >>
                 THEN Return(p, Reply(400, "No action specified"))
                 ELSE IF binance_client
                 THEN Goto(p, "get_usdt_balance")
                 ELSE Return(p, [Reply(200, "simulation") EXCEPT !.action = act, !.symbol = sym])
  /\ UNCHANGED <<exchange, account, available_usdt, usdt_to_trade, current_price,
                 quantity, calls>>

(* execute_trade_with_percentage(): lines 172-188 *)
GetUsdtBalance(p) ==
  /\ pc[p] = "get_usdt_balance"
  /\ \/ /\ ApiError(p, "get_asset_balance", USDT, Zero)
        /\ UNCHANGED <<available_usdt, usdt_to_trade>>
     \/ LET free == account[USDT]
            amount == trade_amount(free)
        IN  /\ calls' = [calls EXCEPT ![p] =
                           Append(@, Call("get_asset_balance", USDT, Zero, TRUE, <<free>>))]
            /\ available_usdt' = [available_usdt EXCEPT ![p] = free]
            /\ IF below_reserve(free)
               THEN /\ Return(p, Reply(200, "Insufficient USDT balance"))
                    /\ UNCHANGED usdt_to_trade
               ELSE /\ usdt_to_trade' = [usdt_to_trade EXCEPT ![p] = amount]
                    /\ IF RatLT(amount, Rat(MinTradeUsdt, 1))
                       THEN Return(p, Reply(200, "Trade amount too small"))
                       ELSE Goto(p, "get_symbol_ticker")
  /\ UNCHANGED <<exchange, account, action, symbol, current_price, quantity>>

(* lines 191-197, the branch on the action at 196/223 and the else at 246 *)
GetSymbolTicker(p) ==
  /\ pc[p] = "get_symbol_ticker"
  /\ \/ /\ ApiError(p, "get_symbol_ticker", str_upper(symbol[p]), Zero)
        /\ UNCHANGED <<current_price, quantity>>
     \/ /\ str_upper(symbol[p]) = BTCUSDT
        /\ calls' = [calls EXCEPT ![p] =
                       Append(@, Call("get_symbol_ticker", str_upper(symbol[p]), Zero,
                                      TRUE, <<price>>))]
        /\ current_price' = [current_price EXCEPT ![p] = price]
        /\ IF str_lower(action[p]) = buy
           THEN /\ quantity' = [quantity EXCEPT ![p] = RatDiv(usdt_to_trade[p], price)]
                /\ Goto(p, "get_symbol_info")
           ELSE IF str_lower(action[p]) = sell
           THEN /\ Goto(p, "get_asset_balance")
                /\ UNCHANGED quantity
           ELSE /\ Return(p, Reply(200, "Invalid action"))
                /\ UNCHANGED quantity
  /\ UNCHANGED <<exchange, account, action, symbol, available_usdt, usdt_to_trade>>

(* lines 200-214 *)
GetSymbolInfo(p) ==
  /\ pc[p] = "get_symbol_info"
  /\ \/ /\ ApiError(p, "get_symbol_info", str_upper(symbol[p]), Zero)
        /\ UNCHANGED quantity
     \/ /\ calls' = [calls EXCEPT ![p] =
                       Append(@, Call("get_symbol_info", str_upper(symbol[p]), Zero,
                                      TRUE, symbol_info))]
        /\ IF symbol_info = << >>
           THEN \* None['filters'] raises TypeError
                /\ Return(p, Reply(200, "Trade execution error"))
                /\ UNCHANGED quantity
           ELSE /\ quantity' = [quantity EXCEPT ![p] = adjust_quantity(@, symbol_info[1])]
                /\ Goto(p, "order_market_buy")
  /\ UNCHANGED <<exchange, account, action, symbol, available_usdt, usdt_to_trade,
                 current_price>>

(* lines 217-221 and 249-258; a filled market buy pays quantity * price *)
OrderMarketBuy(p) ==
  /\ pc[p] = "order_market_buy"
  /\ \/ /\ ApiError(p, "order_market_buy", str_upper(symbol[p]), quantity[p])
        /\ UNCHANGED account
     \/ LET cost == RatMul(quantity[p], price)
        IN  /\ RatLT(Zero, quantity[p])
            /\ RatLE(cost, account[USDT])
            /\ account' = [account EXCEPT ![USDT] = RatSub(@, cost),
                                          ![BTC] = RatAdd(@, quantity[p])]
            /\ calls' = [calls EXCEPT ![p] =
                           Append(@, Call("order_market_buy", str_upper(symbol[p]),
                                          quantity[p], TRUE, << >>))]
            /\ Return(p, Success(p))
  /\ UNCHANGED <<exchange, action, symbol, available_usdt, usdt_to_trade, current_price,
                 quantity>>

(* lines 225-237 *)
GetAssetBalance(p) ==
  LET asset == str_replace(symbol[p], USDT, << >>)
  IN  /\ pc[p] = "get_asset_balance"
      /\ \/ /\ ApiError(p, "get_asset_balance", asset, Zero)
            /\ UNCHANGED quantity
         \/ /\ calls' = [calls EXCEPT ![p] =
                           Append(@, Call("get_asset_balance", asset, Zero, TRUE,
                                          IF asset \in DOMAIN account
                                          THEN <<account[asset]>> ELSE << >>))]
            /\ IF asset \notin DOMAIN account
               THEN \* None['free'] raises TypeError
                    /\ Return(p, Reply(200, "Trade execution error"))
                    /\ UNCHANGED quantity
               ELSE IF account[asset] = Zero
               THEN /\ Return(p, Reply(200, "No balance to sell"))
                    /\ UNCHANGED quantity
               ELSE /\ quantity' = [quantity EXCEPT ![p] = account[asset]]
                    /\ Goto(p, "order_market_sell")
      /\ UNCHANGED <<exchange, account, action, symbol, available_usdt, usdt_to_trade,
                     current_price>>

(* lines 240-244 and 249-258; a filled market sell earns quantity * price *)
OrderMarketSell(p) ==
  /\ pc[p] = "order_market_sell"
  /\ \/ /\ ApiError(p, "order_market_sell", str_upper(symbol[p]), quantity[p])
        /\ UNCHANGED account
     \/ /\ RatLE(quantity[p], account[BTC])
        /\ account' = [account EXCEPT ![BTC] = RatSub(@, quantity[p]),
                                      ![USDT] = RatAdd(@, RatMul(quantity[p], price))]
        /\ calls' = [calls EXCEPT ![p] =
                       Append(@, Call("order_market_sell", str_upper(symbol[p]),
                                      quantity[p], TRUE, << >>))]
        /\ Return(p, Success(p))
  /\ UNCHANGED <<exchange, action, symbol, available_usdt, usdt_to_trade, current_price,
                 quantity>>

----------------------------------------------------------------------------
(* Inputs *)

SP == <<" ">>

QTY == <<"Q","T","Y","=">>

\* a JSON body, and a text body (get_json() gives None for it)
JsonBody(d) == [json |-> d, text |-> << >>]

TextBody(t) == [json |-> None, text |-> t]

NoBody == TextBody(<< >>)

BuyWords == { <<"B","U","Y">>, <<"b","u","y">> }

SellWords == { <<"S","E","L","L">>, <<"S","e","l","l">> }

\* symbols as alerts spell them, each with its upper-case form
SymbolSpellings ==
  { <<BTCUSDT, BTCUSDT>>,
    << <<"b","t","c","u","s","d","t">>, BTCUSDT >>,
    << <<"e","t","h","U","S","D","T">>, <<"E","T","H","U","S","D","T">> >> }

SymbolWords == { sp[1] : sp \in SymbolSpellings }

QtyWords == { <<"1">>, <<"0",".","5">> }

CloseWords == { <<"C","L","O","S","E">>, <<"c","l","o","s","e">> }

LongWords == { <<"L","O","N","G">>, <<"l","o","n","g">> }

ShortWords == { <<"S","H","O","R","T">>, <<"S","h","o","r","t">> }

\* 'BUY BTCUSDT QTY=0.0083'
OrderText(word, sym, n) == word \o SP \o sym \o SP \o QTY \o n

\* 'CLOSE LONG BTCUSDT'
CloseText(close, dir, sym) == close \o SP \o dir \o SP \o sym

OrderTexts ==
  { OrderText(w, sym, n) : w \in BuyWords \cup SellWords, sym \in SymbolWords, n \in QtyWords }

CloseTexts ==
  { CloseText(c, d, sym) : c \in CloseWords, d \in LongWords \cup ShortWords, sym \in SymbolWords }

\* texts that are not an alert of either form
OtherTexts ==
  { <<"h","e","l","l","o"," ","w","o","r","l","d">>,
    <<"B","U","Y">> \o SP \o BTCUSDT,
    <<"B","U","Y">> \o BTCUSDT \o SP \o QTY \o <<"1">>,
    <<"B","U","Y">> \o SP \o BTCUSDT \o SP \o QTY,
    <<"C","L","O","S","E">> \o SP \o BTCUSDT,
    <<"C","L","O","S","E">> \o SP \o <<"L","O","N","G","E","R">> \o SP \o BTCUSDT,
    <<"{","}">> }

JsonBodies ==
  { [action |-> buy, symbol |-> BTCUSDT],
    [action |-> <<"B","U","Y">>, symbol |-> <<"b","t","c","u","s","d","t">>],
    [action |-> sell],
    [action |-> sell, symbol |-> <<"b","t","c","u","s","d","t">>],
    [side |-> <<"S","E","L","L">>, symbol |-> BTCUSDT, secret |-> WEBHOOK_SECRET],
    [action |-> buy, secret |-> <<"g","u","e","s","s">>],
    [action |-> <<"h","o","l","d">>, symbol |-> BTCUSDT],
    [symbol |-> BTCUSDT] }

Payloads ==
  { JsonBody(d) : d \in JsonBodies }
  \cup { TextBody(t) : t \in OrderTexts \cup CloseTexts \cup OtherTexts }

\* free USDT: below the reserve, equal to it, too little to trade, enough
UsdtBalances == { Rat(5, 1), Rat(10, 1), Rat(100, 1), Rat(1000, 1) }

BtcBalances == { Zero, Rat(5, 1) }

Prices == { Rat(50000, 1), Rat(150, 1) }

PriceFilter == [filterType |-> "PRICE_FILTER", tickSize |-> <<"0",".","0","1">>]

LotSize(step) == [filterType |-> "LOT_SIZE", stepSize |-> step]

\* stepSize strings as the exchange writes them, with eight decimals
StepSizes ==
  { <<"0",".","0","0","0","1","0","0","0","0">>,
    <<"0",".","0","0","0","0","1","0","0","0">>,
    <<"0",".","5","0","0","0","0","0","0","0">>,
    <<"1","0",".","0","0","0","0","0","0","0","0">>,
    <<"0",".","0","0","0","0","0","0","0","0">> }

SymbolInfos ==
  { << >>, << <<PriceFilter>> >> } \cup { << <<PriceFilter, LotSize(st)>> >> : st \in StepSizes }

Locals(v) == [p \in Invocations |-> v]

InitLocals ==
  /\ action = Locals(<< >>)
  /\ symbol = Locals(<< >>)
  /\ available_usdt = Locals(Zero)
  /\ usdt_to_trade = Locals(Zero)
  /\ current_price = Locals(Zero)
  /\ quantity = Locals(Zero)
  /\ calls = Locals(<< >>)
  /\ result = Locals(Pending)

\* one request, handled alone, over all inputs
Init ==
  /\ binance_client \in BOOLEAN
  /\ \E u \in UsdtBalances, b \in BtcBalances : account = (USDT :> u) @@ (BTC :> b)
  /\ price \in Prices
  /\ symbol_info \in SymbolInfos
  /\ \E body \in Payloads :
        payload = [p \in Invocations |-> IF p = 1 THEN body ELSE NoBody]
  /\ pc = [p \in Invocations |-> IF p = 1 THEN "webhook" ELSE "idle"]
  /\ InitLocals

Next ==
  \E p \in Invocations :
    \/ Webhook(p)
    \/ GetUsdtBalance(p)
    \/ GetSymbolTicker(p)
    \/ GetSymbolInfo(p)
    \/ OrderMarketBuy(p)
    \/ GetAssetBalance(p)
    \/ OrderMarketSell(p)

Spec == Init /\ [][Next]_vars

\* buy requests arriving together
ConcPayloads ==
  { JsonBody([action |-> buy, symbol |-> BTCUSDT]) }
  \cup { TextBody(OrderText(<<"B","U","Y">>, BTCUSDT, n)) : n \in QtyWords }

ConcInfos ==
  { << <<PriceFilter, LotSize(<<"0",".","0","0","0","1","0","0","0","0">>)>> >>,
    << <<PriceFilter, LotSize(<<"0",".","5","0","0","0","0","0","0","0">>)>> >> }

InitConc ==
  /\ binance_client = TRUE
  /\ account = (USDT :> Rat(1000, 1)) @@ (BTC :> Zero)
  /\ price \in Prices
  /\ symbol_info \in ConcInfos
  /\ payload \in [Invocations -> ConcPayloads]
  /\ pc = Locals("webhook")
  /\ InitLocals

NextConc ==
  \E p \in Invocations :
    \/ Webhook(p)
    \/ GetUsdtBalance(p)
    \/ GetSymbolTicker(p)
    \/ GetSymbolInfo(p)
    \/ OrderMarketBuy(p)

SpecConc == InitConc /\ [][NextConc]_vars

TypeOK == /\ pc \in [Invocations -> {"idle", "webhook", "get_usdt_balance", "get_symbol_ticker",
                                     "get_symbol_info", "order_market_buy",
                                     "get_asset_balance", "order_market_sell", "done"}]
          /\ binance_client \in BOOLEAN

----------------------------------------------------------------------------
(* Properties *)

Done(p) == pc[p] = "done"

\* the request of p has passed webhook()
Parsed(p) == pc[p] \notin {"idle", "webhook"}

OrderCalls(p) ==
  { i \in DOMAIN calls[p] : calls[p][i].fn \in {"order_market_buy", "order_market_sell"} }

BuyCalls(p) == { i \in DOMAIN calls[p] : calls[p][i].fn = "order_market_buy" }

\* no client call of p raised
AllOk(p) == \A i \in DOMAIN calls[p] : calls[p][i].ok

SizingRejections ==
  {"Insufficient USDT balance", "Trade amount too small", "No balance to sell"}

IsBuy(p) == str_lower(action[p]) = buy

IsSell(p) == str_lower(action[p]) = sell

\* C1: the quantity of every market buy call is at most the unrounded
\* quantity usdt_to_trade / price
C1_NeverRoundsUp ==
  \A p \in Invocations : \A i \in BuyCalls(p) :
    RatLE(calls[p][i].quantity, RatDiv(usdt_to_trade[p], current_price[p]))

\* C2: an order call is made only with a quantity > 0 and only when no
\* rejection was produced
C2_NoZeroOrder ==
  \A p \in Invocations : \A i \in OrderCalls(p) :
    /\ RatLT(Zero, calls[p][i].quantity)
    /\ result[p].kind \notin SizingRejections

\* C3: a sell on a symbol whose base asset has a positive free balance is
\* never rejected, whatever the USDT balance, and sells the whole base
\* balance it read; 'No balance to sell' is reported for a zero balance only
C3_SellIgnoresUsdt ==
  \A p \in Invocations :
    LET asset == str_replace(symbol[p], USDT, << >>)
        n     == Len(calls[p])
    IN  (Done(p) /\ IsSell(p) /\ n >= 1 /\ AllOk(p) /\ asset \in DOMAIN account) =>
          /\ RatLT(Zero, account[asset]) => result[p].kind \notin SizingRejections
          /\ result[p].kind = "No balance to sell" => account[asset] = Zero
          /\ result[p].kind = "success" =>
               /\ calls[p][n].fn = "order_market_sell"
               /\ calls[p][n - 1].fn = "get_asset_balance"
               /\ calls[p][n].quantity = calls[p][n - 1].ret[1]

\* C4: the quantity of every market buy call is an exact multiple of the
\* stepSize of the symbol's LOT_SIZE filter
C4_MultipleOfStep ==
  \A p \in Invocations : \A i \in BuyCalls(p) :
    LET step_size == lot_step_size(symbol_info[1])
    IN  (step_size # << >> /\ step_size[1].m # 0) =>
          IsMultipleOf(calls[p][i].quantity, FloatRat(step_size[1]))

\* the free USDT balance the request of p read
FreeUsdt(p) == calls[p][1].ret[1]

ReadUsdt(p) == Len(calls[p]) >= 1 /\ calls[p][1].ok

\* C5 as stated: a buy that read a free USDT balance <= MIN_USDT_BALANCE ends
\* with 'Insufficient USDT balance' and without an order
C5_RejectsAtOrBelowReserve ==
  \A p \in Invocations :
    (Done(p) /\ IsBuy(p) /\ ReadUsdt(p) /\ RatLE(FreeUsdt(p), Rat(MIN_USDT_BALANCE, 1))) =>
      /\ result[p].kind = "Insufficient USDT balance"
      /\ Len(calls[p]) = 1

\* C5 amended: a buy that read a free USDT balance below MIN_USDT_BALANCE
\* ends with 'Insufficient USDT balance', one that read exactly
\* MIN_USDT_BALANCE ends with 'Trade amount too small'; neither makes another
\* client call
C5_RejectsBelowReserve ==
  \A p \in Invocations :
    (Done(p) /\ IsBuy(p) /\ ReadUsdt(p) /\ RatLE(FreeUsdt(p), Rat(MIN_USDT_BALANCE, 1))) =>
      /\ RatLT(FreeUsdt(p), Rat(MIN_USDT_BALANCE, 1)) =>
           result[p].kind = "Insufficient USDT balance"
      /\ FreeUsdt(p) = Rat(MIN_USDT_BALANCE, 1) =>
           result[p].kind = "Trade amount too small"
      /\ Len(calls[p]) = 1

C5_Witness ==
  \E p \in Invocations :
    /\ Done(p) /\ IsBuy(p) /\ ReadUsdt(p)
    /\ FreeUsdt(p) = Rat(MIN_USDT_BALANCE, 1)
    /\ result[p].kind = "Trade amount too small"

\* C6: a request whose action is neither buy nor sell, once its client calls
\* all answer, ends with 'Invalid action' and without an order
C6_InvalidActionAlways ==
  \A p \in Invocations :
    (Done(p) /\ Len(calls[p]) >= 1 /\ AllOk(p) /\ ~IsBuy(p) /\ ~IsSell(p)) =>
      /\ result[p].kind = "Invalid action"
      /\ OrderCalls(p) = {}

\* two bodies 'BUY <SYM> QTY=<n>' that differ at most in n
SameButQty(a, b) ==
  \E w \in BuyWords, sym \in SymbolWords, n1, n2 \in QtyWords :
    /\ a = TextBody(OrderText(w, sym, n1))
    /\ b = TextBody(OrderText(w, sym, n2))

\* what the exchange answered to p, call by call
Responses(p) == [i \in DOMAIN calls[p] |-> <<calls[p][i].ok, calls[p][i].ret>>]

\* C7: two finished requests 'BUY <SYM> QTY=<n>' that differ only in n and
\* got the same answers from the exchange made the same client calls, with
\* the same order quantity, and returned the same response
C7_QtyIgnored ==
  \A p, q \in Invocations :
    (Done(p) /\ Done(q) /\ SameButQty(payload[p], payload[q])
       /\ Responses(p) = Responses(q)) =>
      /\ calls[p] = calls[q]
      /\ result[p] = result[q]

C7_Witness ==
  \E p, q \in Invocations :
    /\ Done(p) /\ Done(q)
    /\ SameButQty(payload[p], payload[q])
    /\ payload[p] # payload[q]
    /\ Responses(p) = Responses(q)
    /\ result[p].kind = "success"
    /\ BuyCalls(p) # {}

\* C8: every client call names an upper-cased symbol or asset, and the
\* response reports the upper-cased symbol
C8_SymbolUpperCased ==
  binance_client =>
    \A p \in Invocations :
      /\ \A i \in DOMAIN calls[p] : calls[p][i].arg = str_upper(calls[p][i].arg)
      /\ result[p].symbol = str_upper(result[p].symbol)

IsCloseText(body, dirs, sym) ==
  \E c \in CloseWords, d \in dirs : body = TextBody(CloseText(c, d, sym))

\* C9: after webhook(), 'CLOSE LONG <SYM>' has action sell and 'CLOSE SHORT
\* <SYM>' has action buy, both with the symbol <SYM> in upper case; a text
\* of neither form ends with 'No valid data received' and no client call
C9_CloseAndUnparseable ==
  \A p \in Invocations :
    Parsed(p) =>
      /\ \A sp \in SymbolSpellings :
           /\ IsCloseText(payload[p], LongWords, sp[1]) =>
                (action[p] = sell /\ symbol[p] = sp[2])
           /\ IsCloseText(payload[p], ShortWords, sp[1]) =>
                (action[p] = buy /\ symbol[p] = sp[2])
      /\ (payload[p].json = None /\ payload[p].text \in OtherTexts) =>
           /\ Done(p)
           /\ result[p] = Reply(400, "No valid data received")
           /\ calls[p] = << >>

C9_Witness ==
  \E p \in Invocations :
    /\ \E sym \in SymbolWords : IsCloseText(payload[p], LongWords, sym)
    /\ Done(p)
    /\ result[p].kind = "success"
    /\ calls[p][Len(calls[p])].fn = "order_market_sell"

Filled(p) == Done(p) /\ result[p].kind = "success"

\* the USDT two buys commit when the second starts after the first is filled
SerialCommit(free) ==
  LET first  == trade_amount(free)
      cost   == RatMul(adjust_quantity(RatDiv(first, price), symbol_info[1]), price)
      left   == RatSub(free, cost)
      second == trade_amount(left)
  IN  IF below_reserve(left) \/ RatLT(second, Rat(MinTradeUsdt, 1))
      THEN first
      ELSE RatAdd(first, second)

\* C10: two filled buys that sized from the same USDT balance snapshot
\* commit more USDT together than two buys run one after the other from
\* that balance
C10_Oversized ==
  \A p, q \in Invocations :
    (p # q /\ Filled(p) /\ Filled(q) /\ available_usdt[p] = available_usdt[q]) =>
      RatLT(SerialCommit(available_usdt[p]), RatAdd(usdt_to_trade[p], usdt_to_trade[q]))

C10_Witness ==
  \E p, q \in Invocations :
    /\ p # q /\ Filled(p) /\ Filled(q)
    /\ available_usdt[p] = available_usdt[q]
    /\ RatLT(SerialCommit(available_usdt[p]), RatAdd(usdt_to_trade[p], usdt_to_trade[q]))
    /\ RatLT(account[USDT], RatSub(available_usdt[p], usdt_to_trade[p]))

====
